---------------------------- MODULE Spec2Model ----------------------------
(***************************************************************************)
(* A model of csv-to-test-report: the validate -> evaluate -> render       *)
(* pipeline (validator.py, engine.py, pdf_report.py) and the web front end *)
(* that wraps it (web_app.py).                                             *)
(*                                                                         *)
(* A CSV file is modelled as the table pandas.read_csv hands back: the set *)
(* of header names and the sequence of rows, a row giving one cell for     *)
(* each of the numeric columns the header names.  A cell is <<kind, n>>:   *)
(*   <<"num", n>>   text that parses as the (whole) number n,              *)
(*   <<"nan", 0>>   an empty cell (read_csv loads it as NaN),              *)
(*   <<"bool", b>>  the text True (b = 1) or False (b = 0), in any of the  *)
(*                  spellings read_csv takes for a boolean,                *)
(*   <<"str", 0>>   any other text.                                        *)
(***************************************************************************)
EXTENDS Integers, Sequences, FiniteSets, TLC

VARIABLES
    csv,        \* pipeline: the file under validation, [cols, rows]
    stage,      \* pipeline: "input" | "validated" | "rejected" | "evaluated" | "failed"
    out,        \* pipeline: the result of the last call (validate_csv or evaluate)
    now,        \* web: the wall clock, time.time(), in seconds
    runs,       \* web: RUNS_DIR, run id -> [exists, mtime, files, input]
    nextRun,    \* web: the number of run ids drawn so far
    hist,       \* web: run id -> how its build ended, a history
    wk,         \* web: call -> the position and locals of a /generate call
    dl,         \* web: the position and locals of the /download call
    tpl,        \* template: template.csv, [exists, text]
    tc          \* template: client -> the position and locals of its /template call

vars == <<csv, stage, out, now, runs, nextRun, hist, wk, dl, tpl, tc>>

pipeVars == <<csv, stage, out>>
webVars  == <<now, runs, nextRun, hist, wk, dl>>
tplVars  == <<tpl, tc>>

-----------------------------------------------------------------------------
(* Bounds of the model.                                                    *)

MaxRows == 2

\* The run ids the front end may draw.
MaxRuns == 1

\* The calls of /template one client makes.
MaxCalls == 2

\* The clock starts at 0 and moves by seconds and by the retention window,
\* to at most MaxDrift seconds past 0 and past one window.
MaxDrift == 1

-----------------------------------------------------------------------------
(* validator.py                                                            *)

REQUIRED_COLUMNS == {"sample_id", "test_name", "value", "lower_limit", "upper_limit"}

\* The columns validate_csv type-checks, in the order of its loop.
NumericColumns == <<"value", "lower_limit", "upper_limit">>

NumericColumnSet == {NumericColumns[i] : i \in 1..Len(NumericColumns)}

\* Header names a file may carry beyond the required ones: the optional
\* unit column and one the program does not know.
ExtraColumns == {"unit", "operator"}

Num(n)  == <<"num", n>>
NaN     == <<"nan", 0>>
Bool(b) == <<"bool", b>>
Str     == <<"str", 0>>

IsNum(c)  == c[1] = "num"
IsNaN(c)  == c[1] = "nan"
IsBool(c) == c[1] = "bool"
IsStr(c)  == c[1] = "str"

\* pandas' dtype inference for one column of a loaded table.  A column of a
\* table without rows is object.  A column whose cells are all True/False
\* is bool.  Other text anywhere, or True/False beside numbers or empty
\* cells, leaves the column as the strings read: object.  Numbers with
\* empty cells are float64 (the empty cells NaN), numbers alone int64.
Dtype(df, col) ==
    LET cells == {df.rows[i][col] : i \in 1..Len(df.rows)} IN
    IF cells = {} THEN "object"
    ELSE IF \A c \in cells : IsBool(c) THEN "bool"
    ELSE IF \E c \in cells : IsStr(c) \/ IsBool(c) THEN "object"
    ELSE IF \E c \in cells : IsNaN(c) THEN "float64"
    ELSE "int64"

\* pd.api.types.is_numeric_dtype: bool counts as numeric.
is_numeric_dtype(df, col) == Dtype(df, col) \in {"int64", "float64", "bool"}

\* pd.read_csv: a file without a header line has no columns to parse.
read_csv(file) ==
    IF file.cols = {}
    THEN [ok |-> FALSE, exc |-> "EmptyDataError", missing |-> {}, column |-> "", df |-> file]
    ELSE [ok |-> TRUE, exc |-> "", missing |-> {}, column |-> "", df |-> file]

\* The first column of the loop whose dtype is not numeric ("" when none).
RECURSIVE FirstNonNumeric(_, _)
FirstNonNumeric(df, i) ==
    IF i > Len(NumericColumns) THEN ""
    ELSE IF ~is_numeric_dtype(df, NumericColumns[i]) THEN NumericColumns[i]
    ELSE FirstNonNumeric(df, i + 1)

\* A validator that names every required column as soon as one is missing.
MissingColumnsAll(cols) ==
    IF REQUIRED_COLUMNS \subseteq cols THEN {} ELSE REQUIRED_COLUMNS

\* missing = REQUIRED_COLUMNS - set(df.columns)
MissingColumns(cols) == REQUIRED_COLUMNS \ cols

validate_csv(file) ==
    LET r == read_csv(file) IN
    IF ~r.ok THEN r
    ELSE LET missing == MissingColumns(r.df.cols) IN
         IF missing # {}
         THEN [ok |-> FALSE, exc |-> "Missing required columns",
               missing |-> missing, column |-> "", df |-> file]
         ELSE LET bad == FirstNonNumeric(r.df, 1) IN
              IF bad # ""
              THEN [ok |-> FALSE, exc |-> "must be numeric",
                    missing |-> {}, column |-> bad, df |-> file]
              ELSE [ok |-> TRUE, exc |-> "", missing |-> {}, column |-> "", df |-> r.df]


-----------------------------------------------------------------------------
(* engine.py                                                               *)

\* A cell of a numeric column holds a number or a boolean, which compares
\* as 1 or 0, or NaN.
Comparable(c) == IsNum(c) \/ IsBool(c)

\* The element-wise comparisons of two columns: a comparison with NaN is
\* False.
Ge(a, b) == Comparable(a) /\ Comparable(b) /\ a[2] >= b[2]
Le(a, b) == Comparable(a) /\ Comparable(b) /\ a[2] <= b[2]

\* An evaluator whose limits are exclusive.
StatusOfExclusive(row) ==
    IF ~Le(row["value"], row["lower_limit"]) /\ ~Ge(row["value"], row["upper_limit"])
       /\ Comparable(row["value"]) /\ Comparable(row["lower_limit"])
       /\ Comparable(row["upper_limit"])
    THEN "PASS" ELSE "FAIL"

\* df["status"] of one row: (value >= lower_limit) & (value <= upper_limit),
\* mapped {True: "PASS", False: "FAIL"}.
StatusOf(row) ==
    IF Ge(row["value"], row["lower_limit"]) /\ Le(row["value"], row["upper_limit"])
    THEN "PASS" ELSE "FAIL"

\* The frame with its status column added.
WithStatus(rows) == [i \in 1..Len(rows) |-> rows[i] @@ ("status" :> StatusOf(rows[i]))]

\* A count that skips the rows whose value is NaN.
CountStatusSkippingNaN(rows, s) ==
    Cardinality({i \in 1..Len(rows) : rows[i]["status"] = s /\ ~IsNaN(rows[i]["value"])})

\* (df["status"] == s).sum()
CountStatus(rows, s) == Cardinality({i \in 1..Len(rows) : rows[i]["status"] = s})

RECURSIVE GCD(_, _)
GCD(a, b) == IF b = 0 THEN a ELSE GCD(b, a % b)

RECURSIVE Pow2(_)
Pow2(k) == IF k = 0 THEN 1 ELSE 2 * Pow2(k - 1)

\* The j with 2^-j <= p / t < 2^(1-j), for 0 < p < t.
RECURSIVE Binade(_, _, _)
Binade(p, t, j) == IF p * Pow2(j) >= t THEN j ELSE Binade(p, t, j + 1)

\* (a * 2^s) mod m
RECURSIVE ShiftMod(_, _, _)
ShiftMod(a, s, m) == IF s = 0 THEN a % m ELSE ShiftMod((2 * a) % m, s - 1, m)

\* pass_count / total * 100 is computed in binary floating point, two
\* roundings to a 53-bit significand, and round(., 2) then rounds the
\* double it is handed.  Where 100 * p / t lies exactly half way between two
\* hundredths the double may lie below it, on it or above it: TieSide is
\* -1, 0 or 1 accordingly.  p / t is in lowest terms, 0 < p < t.
\*   M  = the significand of fl(p / t), M * 2^-s, and r1 = M * t - p * 2^s;
\*   d  = the bits the product 100 * M loses when it is rounded;
\*   e  = (fl(100 * fl(p / t)) - 100 * p / t) * 2^s * t.
TieSide(p, t) ==
    LET j    == Binade(p, t, 0)
        s    == 52 + j
        r0   == ShiftMod(p, s, t)
        r1   == IF 2 * r0 < t THEN 0 - r0 ELSE t - r0
        m    == 256 * t
        mlow == ((ShiftMod(p, s, m) + r1 + m) % m) \div t
        a    == 100 * p * Pow2(j) - 128 * t
        d    == IF a < 0 \/ (a = 0 /\ r1 < 0) THEN 6 ELSE 7
        f    == (100 * mlow) % Pow2(d)
        odd  == ((100 * mlow) % Pow2(d + 1)) \div Pow2(d) = 1
        up   == f > Pow2(d - 1) \/ (f = Pow2(d - 1) /\ odd)
        rho  == IF up THEN Pow2(d) - f ELSE 0 - f
        e    == 100 * r1 + rho * t
    IN  IF e > 0 THEN 1 ELSE IF e < 0 THEN 0 - 1 ELSE 0

\* float(round(pass_count / total * 100, 2)), in hundredths of a percent.
\* round is to the nearest hundredth of the double, a tie to the even
\* neighbour; off a tie the double is on the same side as the quotient.
PassRate(pass_count, total) ==
    LET n == pass_count * 10000
        q == n \div total
        r == n % total
    IN  IF 2 * r > total THEN q + 1
        ELSE IF 2 * r < total THEN q
        ELSE LET g    == GCD(pass_count, total)
                 side == TieSide(pass_count \div g, total \div g)
             IN  IF side > 0 THEN q + 1
                 ELSE IF side < 0 THEN q
                 ELSE q + (q % 2)

NoSummary == [total |-> 0, pass_count |-> 0, fail_count |-> 0,
              pass_rate |-> 0, overall_verdict |-> "none"]

\* An evaluator that guards the division and reports a rate of 0.
evaluateGuarded(df) ==
    LET rows  == WithStatus(df.rows)
        total == Len(rows)
        pass  == CountStatus(rows, "PASS")
        fail  == CountStatus(rows, "FAIL")
    IN  [ok |-> TRUE, exc |-> "", rows |-> rows,
         summary |-> [total |-> total, pass_count |-> pass, fail_count |-> fail,
                      pass_rate |-> IF total = 0 THEN 0 ELSE PassRate(pass, total),
                      overall_verdict |-> IF fail = 0 THEN "PASS" ELSE "FAIL"]]

\* evaluate(df): the status column, then the summary; the division by a
\* total of 0 raises ZeroDivisionError and nothing is returned.
evaluate(df) ==
    LET rows  == WithStatus(df.rows)
        total == Len(rows)
        pass  == CountStatus(rows, "PASS")
        fail  == CountStatus(rows, "FAIL")
    IN  IF total = 0
        THEN [ok |-> FALSE, exc |-> "ZeroDivisionError", rows |-> rows,
              summary |-> NoSummary]
        ELSE [ok |-> TRUE, exc |-> "", rows |-> rows,
              summary |-> [total |-> total, pass_count |-> pass, fail_count |-> fail,
                           pass_rate |-> PassRate(pass, total),
                           overall_verdict |-> IF fail = 0 THEN "PASS" ELSE "FAIL"]]

-----------------------------------------------------------------------------
(* The files the pipeline is run on.                                       *)

\* Rows as <<value, lower_limit, upper_limit>>: a value inside, on and
\* outside its limits, limits in the wrong order, and an empty, a boolean
\* or another non-numeric cell in each of the three columns.
RowPool ==
    { <<Num(1), Num(0), Num(2)>>, <<Num(0), Num(0), Num(2)>>, <<Num(2), Num(0), Num(2)>>,
      <<Num(0), Num(1), Num(2)>>, <<Num(2), Num(0), Num(1)>>, <<Num(1), Num(2), Num(0)>>,
      <<NaN, Num(0), Num(2)>>, <<Num(1), NaN, Num(2)>>, <<Num(1), Num(0), NaN>>,
      <<Str, Num(0), Num(2)>>, <<Num(1), Str, Num(2)>>, <<Num(1), Num(0), Str>>,
      <<Bool(1), Num(0), Num(2)>>, <<Bool(0), Num(1), Num(2)>>,
      <<Num(1), Bool(0), Num(2)>>, <<Num(1), Num(0), Bool(1)>> }

\* The cells of row r under the numeric columns the header names.
RowOf(r, cols) == [c \in cols \cap NumericColumnSet |->
                     r[CHOOSE i \in 1..Len(NumericColumns) : NumericColumns[i] = c]]

HeaderSets == {need \cup ext : need \in SUBSET REQUIRED_COLUMNS, ext \in SUBSET ExtraColumns}

\* The rows a file with header cols may hold.
RowsOf(cols) == {RowOf(r, cols) : r \in RowPool}

\* The files with header cols: a file without a header line has no rows.
FilesWith(cols) ==
    IF cols = {} THEN {[cols |-> cols, rows |-> <<>>]}
    ELSE {[cols |-> cols, rows |-> rows] :
            rows \in UNION {[1..n -> RowsOf(cols)] : n \in 0..MaxRows}}

\* A loaded frame evaluate can be called on: the three columns are there
\* and, unless the frame has no rows, each holds numbers.
NumericFrame(df) ==
    /\ NumericColumnSet \subseteq df.cols
    /\ Len(df.rows) = 0 \/ \A c \in NumericColumnSet : is_numeric_dtype(df, c)

NoOut == [call |-> "none", ok |-> FALSE, exc |-> "", missing |-> {}, column |-> "",
          rows |-> <<>>, summary |-> NoSummary]

OutOfValidate(r) == [call |-> "validate_csv", ok |-> r.ok, exc |-> r.exc,
                     missing |-> r.missing, column |-> r.column,
                     rows |-> <<>>, summary |-> NoSummary]

OutOfEvaluate(r) == [call |-> "evaluate", ok |-> r.ok, exc |-> r.exc,
                     missing |-> {}, column |-> "",
                     rows |-> r.rows, summary |-> r.summary]


-----------------------------------------------------------------------------
(* web_app.py: the run store                                               *)

RunIds == 1..MaxRuns

\* cleanup_runs(older_than_hours = 6): cutoff = time.time() - 6 * 3600
OlderThanHours == 6
SecondsPerHour == 3600
Retention == OlderThanHours * SecondsPerHour

NoFile == [cols |-> {}, rows |-> <<>>]

\* One directory of RUNS_DIR: its st_mtime, the names of its files and the
\* content of its input.csv.  A removed directory keeps the st_mtime it had
\* when it was removed, for the record.
NoDir == [exists |-> FALSE, mtime |-> 0, files |-> {}, input |-> NoFile]

\* mkdir(parents=True, exist_ok=True)
Mkdir(d, t) ==
    IF d.exists THEN d
    ELSE [exists |-> TRUE, mtime |-> t, files |-> {}, input |-> NoFile]

\* Creating or replacing a file of a directory; a new entry sets the
\* directory's st_mtime.
WriteFile(d, f, t) == [d EXCEPT !.files = @ \cup {f},
                                !.mtime = IF f \in d.files THEN @ ELSE t]

\* csv_path.write_bytes(content)
WriteInput(d, content, t) == [WriteFile(d, "input.csv", t) EXCEPT !.input = content]

\* f.unlink(): removing an entry sets the directory's st_mtime.
Unlink(d, f, t) == [d EXCEPT !.files = @ \ {f}, !.mtime = t,
                             !.input = IF f = "input.csv" THEN NoFile ELSE @]

\* A sweep that takes every directory, whatever its age.
ExpiredAnyAge(d, cutoff) == d.exists

\* A sweep that takes a directory modified exactly at the cutoff.
ExpiredInclusive(d, cutoff) == d.exists /\ d.mtime <= cutoff

\* p.is_dir() and p.stat().st_mtime < cutoff
Expired(d, cutoff) == d.exists /\ d.mtime < cutoff

\* p.rmdir()
Remove(d) == [d EXCEPT !.exists = FALSE, !.files = {}, !.input = NoFile]

-----------------------------------------------------------------------------
(* pdf_report.py                                                           *)

\* What a call into the chart and the document library may do: the
\* libraries are outside the repository, and a call may raise before it
\* writes its file (a sample_id column plt.scatter cannot plot, markup in
\* report_title that Paragraph cannot parse).
LibraryOutcomes == {"ok", "raise"}

\* A loader that lets every file through.
LoadedUnchecked(file) == [ok |-> TRUE, exc |-> ""]

\* df = validate_csv(csv_path); results_df, summary = evaluate(df): an
\* exception of either leaves build_pdf_report.
Loaded(file) ==
    LET v == validate_csv(file) IN
    IF ~v.ok THEN [ok |-> FALSE, exc |-> v.exc]
    ELSE LET e == evaluate(v.df) IN
         IF ~e.ok THEN [ok |-> FALSE, exc |-> e.exc]
         ELSE [ok |-> TRUE, exc |-> ""]

-----------------------------------------------------------------------------
(* web_app.py: the handlers                                                *)

UpperCase == << "A", "B", "C", "D", "E", "F", "G", "H", "I", "J", "K", "L", "M",
                "N", "O", "P", "Q", "R", "S", "T", "U", "V", "W", "X", "Y", "Z" >>
LowerCase == << "a", "b", "c", "d", "e", "f", "g", "h", "i", "j", "k", "l", "m",
                "n", "o", "p", "q", "r", "s", "t", "u", "v", "w", "x", "y", "z" >>

\* A file name is the sequence of its characters, ASCII here: a capital
\* letter has a lower-case form, every other character is its own.
ToLower(ch) ==
    IF \E i \in 1..Len(UpperCase) : UpperCase[i] = ch
    THEN LowerCase[CHOOSE i \in 1..Len(UpperCase) : UpperCase[i] = ch]
    ELSE ch

\* str.lower()
Lower(name) == [i \in 1..Len(name) |-> ToLower(name[i])]

\* str.endswith(suffix)
EndsWith(name, suffix) ==
    /\ Len(name) >= Len(suffix)
    /\ \A i \in 1..Len(suffix) : name[Len(name) - Len(suffix) + i] = suffix[i]

DotCsv == <<".", "c", "s", "v">>

\* file.filename.lower().endswith(".csv")
IsCsvName(name) == EndsWith(Lower(name), DotCsv)

MaxUploadBytes == 5 * 1024 * 1024

\* A size check that turns away a payload of exactly the limit.
TooLargeInclusive(size) == size >= MaxUploadBytes

\* len(content) > 5 * 1024 * 1024
TooLarge(size) == size > MaxUploadBytes

FileNames == { <<"a", ".", "c", "s", "v">>, <<"B", ".", "C", "S", "V">>,
               <<"a", ".", "C", "s", "v">>, <<"a", ".", "t", "x", "t">>,
               <<"c", "s", "v">>, <<"a", ".", "c", "s", "v", "x">>, <<>> }

UploadSizes == {MaxUploadBytes - 1, MaxUploadBytes, MaxUploadBytes + 1}

\* The contents uploaded to the front end: no header, a header alone, a row
\* that passes, rows that fail (one for an empty cell), a boolean value,
\* text in a limit, a missing column.
AllColumns == REQUIRED_COLUMNS \cup {"unit"}
PlainFile == [cols |-> AllColumns,
              rows |-> <<RowOf(<<Num(1), Num(0), Num(2)>>, AllColumns)>>]
TextFile == [cols |-> AllColumns,
             rows |-> <<RowOf(<<Num(1), Str, Num(2)>>, AllColumns)>>]
WebFiles ==
    { [cols |-> {}, rows |-> <<>>],
      [cols |-> AllColumns, rows |-> <<>>],
      PlainFile,
      [cols |-> REQUIRED_COLUMNS,
       rows |-> <<RowOf(<<NaN, Num(0), Num(2)>>, REQUIRED_COLUMNS),
                  RowOf(<<Num(2), Num(0), Num(1)>>, REQUIRED_COLUMNS)>>],
      [cols |-> REQUIRED_COLUMNS,
       rows |-> <<RowOf(<<Bool(1), Num(0), Num(2)>>, REQUIRED_COLUMNS)>>],
      TextFile,
      [cols |-> AllColumns \ {"value"},
       rows |-> <<RowOf(<<Num(1), Num(0), Num(2)>>, AllColumns \ {"value"})>>] }

\* The uploads of one server process: a file that is accepted and a name
\* that is turned away.
Uploads ==
    { [filename |-> <<"a", ".", "c", "s", "v">>, size |-> MaxUploadBytes, file |-> PlainFile],
      [filename |-> <<"a", ".", "t", "x", "t">>, size |-> MaxUploadBytes, file |-> PlainFile] }

\* Every name at every size, with one content.
NamedUploads == [filename : FileNames, size : UploadSizes, file : {PlainFile}]

\* Every content, under a good name.
ContentUploads ==
    [filename : {<<"a", ".", "c", "s", "v">>}, size : {MaxUploadBytes}, file : WebFiles]

\* The upload of concurrent server processes: a file that is accepted.
WorkerUploads ==
    { [filename |-> <<"a", ".", "c", "s", "v">>, size |-> MaxUploadBytes, file |-> PlainFile] }

NoUpload == [filename |-> <<>>, size |-> 0, file |-> NoFile]

\* friendly_error(e): the text of the exception and the hint added to it.
friendly_error(exc) ==
    IF exc = "Missing required columns" THEN <<exc, " Please use the template CSV.">>
    ELSE IF exc = "must be numeric" THEN <<exc, " Ensure value and limits are numeric.">>
    ELSE <<exc>>

\* A response: the status code and the message of the page (for a served
\* file its name), the run it is about and whether the handler called
\* build_pdf_report.
Response(op, status, msg, run, built) ==
    [op |-> op, status |-> status, msg |-> msg, run |-> run, built |-> built]

NoResponse == Response("none", 0, <<>>, 0, FALSE)

NoHist == [outcome |-> "none", exc |-> ""]

NoRuns == [r \in RunIds |-> NoDir]

\* A /generate call.  proc is the server process whose event loop runs it.
\* Of the sweep: cutoff, the listing RUNS_DIR.iterdir() gave (listed), the
\* part of it not yet visited (todo) and the part found older than the
\* cutoff (doomed), the directory being removed (cur), the part of its
\* rglob listing not yet visited (ftodo) and the file between is_file() and
\* unlink() (curf).  Of the run: its id, the time of its mkdir, whether the
\* document takes each chart image, the response and whether report.pdf
\* was on disk when the success page was returned.
IdleCall(proc) ==
    [proc |-> proc, pc |-> "idle", u |-> NoUpload,
     cutoff |-> 0, listed |-> {}, todo |-> {}, doomed |-> {},
     cur |-> 0, ftodo |-> {}, curf |-> "",
     run |-> 0, made |-> 0, withHist |-> FALSE, withScatter |-> FALSE,
     resp |-> NoResponse, pdfThere |-> FALSE]

\* A /download call: its position, the run asked for and the response.
IdleDownload == [pc |-> "idle", run |-> 0, resp |-> NoResponse, body |-> "none"]

PipeIdle == csv = [cols |-> {}, rows |-> <<>>] /\ stage = "off" /\ out = NoOut

StoreIdle ==
    /\ now = 0
    /\ runs = NoRuns
    /\ nextRun = 0
    /\ hist = [r \in RunIds |-> NoHist]
    /\ dl = IdleDownload

WebIdle == StoreIdle /\ wk = [w \in {} |-> IdleCall("")]

TemplateIdle == tpl = [exists |-> FALSE, text |-> <<>>] /\ tc = [c \in {} |-> 0]

-----------------------------------------------------------------------------
(* The pipeline, one file at a time: validate_csv, then evaluate.          *)

Init == /\ \E cols \in HeaderSets : csv \in FilesWith(cols)
        /\ stage = "input" /\ out = NoOut
        /\ WebIdle /\ TemplateIdle

\* df = validate_csv(csv_path)
Validate ==
    /\ stage = "input"
    /\ LET r == validate_csv(csv) IN
       /\ out' = OutOfValidate(r)
       /\ stage' = IF r.ok THEN "validated" ELSE "rejected"
    /\ UNCHANGED <<csv, webVars, tplVars>>

\* results_df, summary = evaluate(df), on the validated frame
Evaluate ==
    /\ stage = "validated"
    /\ LET r == evaluate(validate_csv(csv).df) IN
       /\ out' = OutOfEvaluate(r)
       /\ stage' = IF r.ok THEN "evaluated" ELSE "failed"
    /\ UNCHANGED <<csv, webVars, tplVars>>

\* evaluate called on a loaded frame that validate_csv has not seen
EvaluateLoaded ==
    /\ stage = "input"
    /\ read_csv(csv).ok
    /\ NumericFrame(csv)
    /\ LET r == evaluate(read_csv(csv).df) IN
       /\ out' = OutOfEvaluate(r)
       /\ stage' = IF r.ok THEN "evaluated" ELSE "failed"
    /\ UNCHANGED <<csv, webVars, tplVars>>

Next == Validate \/ Evaluate \/ EvaluateLoaded

Spec == Init /\ [][Next]_vars

-----------------------------------------------------------------------------
(* The front end: /generate calls, each step one access to the file system *)
(* or to the clock.  generate is a coroutine: the calls of one server      *)
(* process share its event loop, so a call runs alone from one await to    *)
(* the next, and other calls of the process run only while it waits at     *)
(* await file.read().  Calls of different processes, and the sync handler  *)
(* download, which runs on a pool thread, interleave at every step.        *)

Workers == {"w1", "w2"}

\* The positions at which a call has given up the event loop.
Suspended == {"idle", "read", "done"}

\* The event loop of w's process is free to run w.
Runnable(w) ==
    \A v \in DOMAIN wk \ {w} : wk[v].proc = wk[w].proc => wk[v].pc \in Suspended

\* The call returns its response: its locals are gone.
Answer(w, response) ==
    [IdleCall(wk[w].proc) EXCEPT !.pc = "done", !.resp = response,
                                 !.u = [wk[w].u EXCEPT !.file = NoFile]]

ErrorPage(w, exc) ==
    Answer(w, Response("generate", 400, <<"Error: ">> \o friendly_error(exc), wk[w].run, TRUE))

\* except Exception as e: return the error page
Fail(w, exc) ==
    /\ wk' = [wk EXCEPT ![w] = ErrorPage(w, exc)]
    /\ hist' = [hist EXCEPT ![wk[w].run] = [outcome |-> "failed", exc |-> exc]]

\* cleanup_runs: cutoff = time.time() - older_than_hours * 3600, and the
\* listing RUNS_DIR.iterdir() walks.
Begin(w, u) ==
    /\ wk[w].pc = "idle"
    /\ Runnable(w)
    /\ wk' = [wk EXCEPT ![w] = [IdleCall(wk[w].proc) EXCEPT
                                   !.pc = "sweep", !.u = u,
                                   !.cutoff = now - Retention,
                                   !.listed = {r \in RunIds : runs[r].exists},
                                   !.todo = {r \in RunIds : runs[r].exists}]]
    /\ UNCHANGED <<now, runs, nextRun, hist, dl, pipeVars, tplVars>>

\* if p.is_dir() and p.stat().st_mtime < cutoff, on the next listed entry
SweepStat(w, r) ==
    /\ wk[w].pc = "sweep"
    /\ r \in wk[w].todo
    /\ wk' = [wk EXCEPT ![w].todo = @ \ {r},
                        ![w].doomed = IF Expired(runs[r], wk[w].cutoff) THEN @ \cup {r} ELSE @,
                        ![w].cur = IF Expired(runs[r], wk[w].cutoff) THEN r ELSE 0,
                        ![w].pc = IF Expired(runs[r], wk[w].cutoff) THEN "list" ELSE "sweep"]
    /\ UNCHANGED <<now, runs, nextRun, hist, dl, pipeVars, tplVars>>

\* p.rglob("*") reads the directory when the loop asks for its first entry;
\* of a directory that is gone it yields nothing
SweepList(w) ==
    /\ wk[w].pc = "list"
    /\ LET d == runs[wk[w].cur] IN
       wk' = [wk EXCEPT ![w].pc = "files",
                        ![w].ftodo = IF d.exists THEN d.files ELSE {}]
    /\ UNCHANGED <<now, runs, nextRun, hist, dl, pipeVars, tplVars>>

\* if f.is_file(), on the next entry of the listing, in the order the
\* directory gave
SweepIsFile(w, f) ==
    /\ wk[w].pc = "files"
    /\ f \in wk[w].ftodo
    /\ LET d == runs[wk[w].cur] IN
       wk' = [wk EXCEPT ![w].ftodo = @ \ {f},
                        ![w].curf = IF d.exists /\ f \in d.files THEN f ELSE "",
                        ![w].pc = IF d.exists /\ f \in d.files THEN "unlink" ELSE "files"]
    /\ UNCHANGED <<now, runs, nextRun, hist, dl, pipeVars, tplVars>>

\* f.unlink(): of a file that has gone since is_file() it raises, and
\* except Exception: pass takes the sweep to the next directory
SweepUnlink(w) ==
    /\ wk[w].pc = "unlink"
    /\ LET r == wk[w].cur
           f == wk[w].curf
       IN  IF runs[r].exists /\ f \in runs[r].files
           THEN /\ runs' = [runs EXCEPT ![r] = Unlink(@, f, now)]
                /\ wk' = [wk EXCEPT ![w].pc = "files", ![w].curf = ""]
           ELSE /\ wk' = [wk EXCEPT ![w].pc = "sweep", ![w].cur = 0,
                                    ![w].ftodo = {}, ![w].curf = ""]
                /\ UNCHANGED runs
    /\ UNCHANGED <<now, nextRun, hist, dl, pipeVars, tplVars>>

\* p.rmdir(): an OSError (the directory is gone, or is not empty) is passed
SweepRmdir(w) ==
    /\ wk[w].pc = "files"
    /\ wk[w].ftodo = {}
    /\ LET r == wk[w].cur IN
       runs' = [runs EXCEPT ![r] =
                  IF runs[r].exists /\ runs[r].files = {} THEN Remove(runs[r]) ELSE runs[r]]
    /\ wk' = [wk EXCEPT ![w].pc = "sweep", ![w].cur = 0]
    /\ UNCHANGED <<now, nextRun, hist, dl, pipeVars, tplVars>>

\* The sweep is over: the name check, and the call waits at
\* await file.read().
CheckName(w) ==
    /\ wk[w].pc = "sweep"
    /\ wk[w].todo = {}
    /\ wk' = [wk EXCEPT ![w] =
                IF ~IsCsvName(wk[w].u.filename)
                THEN Answer(w, Response("generate", 400,
                                        <<"Please upload a .csv file.">>, 0, FALSE))
                ELSE [wk[w] EXCEPT !.pc = "read", !.cutoff = 0, !.listed = {},
                                   !.doomed = {}]]
    /\ UNCHANGED <<now, runs, nextRun, hist, dl, pipeVars, tplVars>>

\* The upload is read: the size check, then the run id and
\* run_dir.mkdir(parents=True, exist_ok=True).
Admit(w) ==
    /\ wk[w].pc = "read"
    /\ Runnable(w)
    /\ IF TooLarge(wk[w].u.size)
       THEN /\ wk' = [wk EXCEPT ![w] = Answer(w, Response("generate", 400,
                                           <<"File too large (max 5MB).">>, 0, FALSE))]
            /\ UNCHANGED <<runs, nextRun>>
       ELSE /\ nextRun < MaxRuns
            /\ nextRun' = nextRun + 1
            /\ runs' = [runs EXCEPT ![nextRun + 1] = Mkdir(@, now)]
            /\ wk' = [wk EXCEPT ![w].pc = "write", ![w].run = nextRun + 1, ![w].made = now]
    /\ UNCHANGED <<now, hist, dl, pipeVars, tplVars>>

\* csv_path.write_bytes(content): outside the try, so a missing directory
\* is an unhandled FileNotFoundError, a 500.
WriteCsv(w) ==
    /\ wk[w].pc = "write"
    /\ LET r == wk[w].run IN
       IF runs[r].exists
       THEN /\ runs' = [runs EXCEPT ![r] = WriteInput(@, wk[w].u.file, now)]
            /\ wk' = [wk EXCEPT ![w].pc = "build", ![w].u.file = NoFile]
            /\ UNCHANGED hist
       ELSE /\ wk' = [wk EXCEPT ![w] = Answer(w, Response("generate", 500,
                                           <<"FileNotFoundError">>, r, FALSE))]
            /\ hist' = [hist EXCEPT ![r] = [outcome |-> "failed",
                                            exc |-> "FileNotFoundError"]]
            /\ UNCHANGED runs
    /\ UNCHANGED <<now, nextRun, dl, pipeVars, tplVars>>

\* build_pdf_report: out_pdf.parent.mkdir(parents=True, exist_ok=True)
BuildMkdir(w) ==
    /\ wk[w].pc = "build"
    /\ runs' = [runs EXCEPT ![wk[w].run] = Mkdir(@, now)]
    /\ wk' = [wk EXCEPT ![w].pc = "load"]
    /\ UNCHANGED <<now, nextRun, hist, dl, pipeVars, tplVars>>

\* validate_csv(csv_path) reads input.csv; then evaluate(df)
BuildLoad(w) ==
    /\ wk[w].pc = "load"
    /\ LET d == runs[wk[w].run] IN
       IF ~d.exists \/ "input.csv" \notin d.files
       THEN Fail(w, "FileNotFoundError")
       ELSE IF ~Loaded(d.input).ok
       THEN Fail(w, Loaded(d.input).exc)
       ELSE wk' = [wk EXCEPT ![w].pc = "hist"] /\ UNCHANGED hist
    /\ UNCHANGED <<now, runs, nextRun, dl, pipeVars, tplVars>>

\* generate_histogram(results_df, hist_path): plt.savefig writes the image
BuildHistogram(w, o) ==
    /\ wk[w].pc = "hist"
    /\ LET r == wk[w].run IN
       IF o = "raise" THEN Fail(w, "LibraryError") /\ UNCHANGED runs
       ELSE IF ~runs[r].exists THEN Fail(w, "FileNotFoundError") /\ UNCHANGED runs
       ELSE /\ runs' = [runs EXCEPT ![r] = WriteFile(@, "histogram.png", now)]
            /\ wk' = [wk EXCEPT ![w].pc = "scatter"]
            /\ UNCHANGED hist
    /\ UNCHANGED <<now, nextRun, dl, pipeVars, tplVars>>

\* generate_scatter(results_df, scatter_path)
BuildScatter(w, o) ==
    /\ wk[w].pc = "scatter"
    /\ LET r == wk[w].run IN
       IF o = "raise" THEN Fail(w, "LibraryError") /\ UNCHANGED runs
       ELSE IF ~runs[r].exists THEN Fail(w, "FileNotFoundError") /\ UNCHANGED runs
       ELSE /\ runs' = [runs EXCEPT ![r] = WriteFile(@, "scatter.png", now)]
            /\ wk' = [wk EXCEPT ![w].pc = "hasHist"]
            /\ UNCHANGED hist
    /\ UNCHANGED <<now, nextRun, dl, pipeVars, tplVars>>

\* if Path(hist_path).exists(): the story takes Image(hist_path)
BuildHasHistogram(w) ==
    /\ wk[w].pc = "hasHist"
    /\ LET d == runs[wk[w].run] IN
       wk' = [wk EXCEPT ![w].pc = "hasScatter",
                        ![w].withHist = d.exists /\ "histogram.png" \in d.files]
    /\ UNCHANGED <<now, runs, nextRun, hist, dl, pipeVars, tplVars>>

\* if Path(scatter_path).exists(): the story takes Image(scatter_path)
BuildHasScatter(w) ==
    /\ wk[w].pc = "hasScatter"
    /\ LET d == runs[wk[w].run] IN
       wk' = [wk EXCEPT ![w].pc = "draw",
                        ![w].withScatter = d.exists /\ "scatter.png" \in d.files]
    /\ UNCHANGED <<now, runs, nextRun, hist, dl, pipeVars, tplVars>>

\* The story is put together and doc.build(story) lays it out, reading the
\* images the story took.
BuildDraw(w, o) ==
    /\ wk[w].pc = "draw"
    /\ LET d == runs[wk[w].run] IN
       IF o = "raise" THEN Fail(w, "LibraryError")
       ELSE IF \/ wk[w].withHist /\ ~(d.exists /\ "histogram.png" \in d.files)
               \/ wk[w].withScatter /\ ~(d.exists /\ "scatter.png" \in d.files)
       THEN Fail(w, "FileNotFoundError")
       ELSE wk' = [wk EXCEPT ![w].pc = "save"] /\ UNCHANGED hist
    /\ UNCHANGED <<now, runs, nextRun, dl, pipeVars, tplVars>>

\* doc.build(story) writes out_pdf_path at its end.
BuildSave(w) ==
    /\ wk[w].pc = "save"
    /\ LET r == wk[w].run IN
       IF ~runs[r].exists THEN Fail(w, "FileNotFoundError") /\ UNCHANGED runs
       ELSE /\ runs' = [runs EXCEPT ![r] = WriteFile(@, "report.pdf", now)]
            /\ wk' = [wk EXCEPT ![w].pc = "respond"]
            /\ hist' = [hist EXCEPT ![r] = [outcome |-> "ok", exc |-> ""]]
    /\ UNCHANGED <<now, nextRun, dl, pipeVars, tplVars>>

\* build_pdf_report has returned: the success page.
Respond(w) ==
    /\ wk[w].pc = "respond"
    /\ LET r == wk[w].run IN
       wk' = [wk EXCEPT ![w] =
                [Answer(w, Response("generate", 200, <<"Report generated">>, r, TRUE))
                   EXCEPT !.pdfThere = runs[r].exists /\ "report.pdf" \in runs[r].files]]
    /\ UNCHANGED <<now, runs, nextRun, hist, dl, pipeVars, tplVars>>

\* The next request.
Finish(w) ==
    /\ wk[w].pc = "done"
    /\ wk' = [wk EXCEPT ![w] = IdleCall(wk[w].proc)]
    /\ UNCHANGED <<now, runs, nextRun, hist, dl, pipeVars, tplVars>>

\* GET /download/{run_id}: if not pdf_path.exists(), the apology page
DownloadCheck(run_id) ==
    /\ dl.pc = "idle"
    /\ dl' = IF runs[run_id].exists /\ "report.pdf" \in runs[run_id].files
             THEN [pc |-> "stat", run |-> run_id, resp |-> NoResponse, body |-> "none"]
             ELSE [pc |-> "idle", run |-> run_id,
                   resp |-> Response("download", 200, <<"Report not found or expired.">>,
                                     run_id, FALSE),
                   body |-> "complete"]
    /\ UNCHANGED <<now, runs, nextRun, hist, wk, pipeVars, tplVars>>

\* FileResponse stats the file when the response is sent, and sends the
\* headers of a 200 with its size: a file that has gone since exists() is
\* an error of the server, a 500.
DownloadStat ==
    /\ dl.pc = "stat"
    /\ LET r == dl.run IN
       dl' = IF runs[r].exists /\ "report.pdf" \in runs[r].files
             THEN [dl EXCEPT !.pc = "send",
                             !.resp = Response("download", 200, <<"test-report.pdf">>,
                                               r, FALSE)]
             ELSE [dl EXCEPT !.pc = "idle",
                             !.resp = Response("download", 500, <<"RuntimeError">>, r, FALSE),
                             !.body = "complete"]
    /\ UNCHANGED <<now, runs, nextRun, hist, wk, pipeVars, tplVars>>

\* FileResponse opens the file and sends it: of a file that has gone since
\* the stat the open raises FileNotFoundError after the headers are out,
\* and the body never follows.
DownloadSend ==
    /\ dl.pc = "send"
    /\ LET r == dl.run IN
       dl' = [dl EXCEPT !.pc = "idle",
                        !.body = IF runs[r].exists /\ "report.pdf" \in runs[r].files
                                 THEN "complete" ELSE "cut"]
    /\ UNCHANGED <<now, runs, nextRun, hist, wk, pipeVars, tplVars>>

\* Time passing, between and within requests.
ClockSteps == {1, Retention}

ClockOk(t) == t % Retention <= MaxDrift /\ t <= Retention + MaxDrift

Tick(d) ==
    /\ ClockOk(now + d)
    /\ now' = now + d
    /\ UNCHANGED <<runs, nextRun, hist, wk, dl, pipeVars, tplVars>>

\* The files of a run directory.
RunFiles == {"input.csv", "histogram.png", "scatter.png", "report.pdf"}

\* The steps of a call after its first.
Sweeping ==
    \/ \E w \in DOMAIN wk, r \in RunIds : SweepStat(w, r)
    \/ \E w \in DOMAIN wk : SweepList(w)
    \/ \E w \in DOMAIN wk, f \in RunFiles :
          SweepIsFile(w, f)
    \/ \E w \in DOMAIN wk : SweepUnlink(w)
    \/ \E w \in DOMAIN wk : SweepRmdir(w)

Handling ==
    \/ \E w \in DOMAIN wk : CheckName(w)
    \/ \E w \in DOMAIN wk : Admit(w)
    \/ \E w \in DOMAIN wk : WriteCsv(w)
    \/ \E w \in DOMAIN wk : Respond(w)
    \/ \E w \in DOMAIN wk : Finish(w)

Building ==
    \/ \E w \in DOMAIN wk : BuildMkdir(w)
    \/ \E w \in DOMAIN wk : BuildLoad(w)
    \/ \E w \in DOMAIN wk, o \in LibraryOutcomes : BuildHistogram(w, o)
    \/ \E w \in DOMAIN wk, o \in LibraryOutcomes : BuildScatter(w, o)
    \/ \E w \in DOMAIN wk : BuildHasHistogram(w)
    \/ \E w \in DOMAIN wk : BuildHasScatter(w)
    \/ \E w \in DOMAIN wk, o \in LibraryOutcomes : BuildDraw(w, o)
    \/ \E w \in DOMAIN wk : BuildSave(w)

\* One server process: its /generate calls share the event loop, and
\* /download runs beside them.
InitWeb ==
    /\ PipeIdle /\ StoreIdle /\ TemplateIdle
    /\ wk = [w \in Workers |-> IdleCall("p")]

NextWeb ==
    \/ \E w \in DOMAIN wk, u \in Uploads : Begin(w, u)
    \/ Sweeping
    \/ Handling
    \/ Building
    \/ \E run_id \in RunIds : DownloadCheck(run_id)
    \/ DownloadStat
    \/ DownloadSend
    \/ \E d \in ClockSteps : Tick(d)

SpecWeb == InitWeb /\ [][NextWeb]_vars

\* One client that uploads files of every name and size, a call at a time.
InitUpload ==
    /\ PipeIdle /\ StoreIdle /\ TemplateIdle
    /\ wk = [w \in {"w1"} |-> IdleCall("p")]

NextUpload ==
    \/ \E w \in DOMAIN wk, u \in NamedUploads : Begin(w, u)
    \/ Sweeping
    \/ Handling
    \/ Building
    \/ \E d \in ClockSteps : Tick(d)

SpecUpload == InitUpload /\ [][NextUpload]_vars

\* One /generate call at a time, over the contents.
InitBuild ==
    /\ PipeIdle /\ StoreIdle /\ TemplateIdle
    /\ wk = [w \in {"w2"} |-> IdleCall("p")]

NextBuild ==
    \/ \E w \in DOMAIN wk, u \in ContentUploads : Begin(w, u)
    \/ Sweeping
    \/ Handling
    \/ Building
    \/ \E d \in ClockSteps : Tick(d)

SpecBuild == InitBuild /\ [][NextBuild]_vars

\* Server processes that share RUNS_DIR, a /generate call in each.
InitWorkers ==
    /\ PipeIdle /\ StoreIdle /\ TemplateIdle
    /\ wk = [w \in Workers |-> IdleCall(w)]

NextWorkers ==
    \/ \E w \in DOMAIN wk, u \in WorkerUploads : Begin(w, u)
    \/ Sweeping
    \/ Handling
    \/ Building
    \/ \E d \in ClockSteps : Tick(d)

SpecWorkers == InitWorkers /\ [][NextWorkers]_vars

-----------------------------------------------------------------------------
(* GET /template: a sync handler, which the framework runs on the threads   *)
(* of its pool, so two calls interleave at every access to template.csv.   *)

Clients == {"c1", "c2"}

\* The text template_csv writes, a line per element.
TemplateText == << "sample_id,test_name,value,lower_limit,upper_limit,unit",
                   "DUT_001,Output Power,-12.4,-15,-10,dBm" >>

\* A client's call: its position, the size FileResponse read with stat, the
\* body it sent, and the number of calls the client has completed.
NewCall(n) == [pc |-> "start", size |-> 0, body |-> <<>>, calls |-> n]

\* template.csv is missing, or is there from an earlier run of the program.
InitTemplate ==
    /\ PipeIdle /\ WebIdle
    /\ tpl \in {[exists |-> FALSE, text |-> <<>>], [exists |-> TRUE, text |-> TemplateText]}
    /\ tc = [c \in Clients |-> NewCall(0)]

\* if not template_path.exists():
TemplateExists(c) ==
    /\ tc[c].pc = "start"
    /\ tc' = [tc EXCEPT ![c].pc = IF tpl.exists THEN "respond" ELSE "open"]
    /\ UNCHANGED <<tpl, pipeVars, webVars>>

\* template_path.write_text(...): open(mode "w") creates or truncates
TemplateOpen(c) ==
    /\ tc[c].pc = "open"
    /\ tpl' = [exists |-> TRUE, text |-> <<>>]
    /\ tc' = [tc EXCEPT ![c].pc = "write"]
    /\ UNCHANGED <<pipeVars, webVars>>

\* ... and the text reaches the file when it is written and closed
TemplateWrite(c) ==
    /\ tc[c].pc = "write"
    /\ tpl' = [exists |-> TRUE, text |-> TemplateText]
    /\ tc' = [tc EXCEPT ![c].pc = "respond"]
    /\ UNCHANGED <<pipeVars, webVars>>

\* FileResponse: the stat that sets Content-Length
TemplateStat(c) ==
    /\ tc[c].pc = "respond"
    /\ tc' = [tc EXCEPT ![c].pc = "send", ![c].size = Len(tpl.text)]
    /\ UNCHANGED <<tpl, pipeVars, webVars>>

\* FileResponse: the file read and sent
TemplateSend(c) ==
    /\ tc[c].pc = "send"
    /\ tc' = [tc EXCEPT ![c].pc = "done", ![c].body = tpl.text, ![c].calls = @ + 1]
    /\ UNCHANGED <<tpl, pipeVars, webVars>>

\* The client asks again.
TemplateAgain(c) ==
    /\ tc[c].pc = "done"
    /\ tc[c].calls < MaxCalls
    /\ tc' = [tc EXCEPT ![c] = NewCall(tc[c].calls)]
    /\ UNCHANGED <<tpl, pipeVars, webVars>>

NextTemplate ==
    \/ \E c \in Clients : TemplateExists(c)
    \/ \E c \in Clients : TemplateOpen(c)
    \/ \E c \in Clients : TemplateWrite(c)
    \/ \E c \in Clients : TemplateStat(c)
    \/ \E c \in Clients : TemplateSend(c)
    \/ \E c \in Clients : TemplateAgain(c)

SpecTemplate == InitTemplate /\ [][NextTemplate]_vars

-----------------------------------------------------------------------------
(* Properties of the pipeline, under Spec.                                 *)

\* The numeric cells of row i of the file.
CellsOf(i) == [c \in NumericColumnSet |-> csv.rows[i][c]]

\* lower_limit <= value <= upper_limit, a boolean cell counting as 1 or 0.
InRange(v, l, u) ==
    /\ v[1] \in {"num", "bool"} /\ l[1] \in {"num", "bool"} /\ u[1] \in {"num", "bool"}
    /\ l[2] <= v[2] /\ v[2] <= u[2]

\* C1: evaluate gives a row PASS exactly when lower_limit <= value <=
\* upper_limit, both ends included, and FAIL otherwise, from that row's
\* cells alone; the evaluated table holds the input's rows in their order.
C1_StatusIsInclusiveRange ==
    (out.call = "evaluate" /\ out.ok) =>
        /\ Len(out.rows) = Len(csv.rows)
        /\ \A i \in 1..Len(csv.rows) :
              /\ \A c \in NumericColumnSet : out.rows[i][c] = csv.rows[i][c]
              /\ out.rows[i]["status"] \in {"PASS", "FAIL"}
              /\ out.rows[i]["status"] = "PASS"
                    <=> InRange(csv.rows[i]["value"], csv.rows[i]["lower_limit"],
                                csv.rows[i]["upper_limit"])

\* A value on its lower limit passes beside a value above its upper limit.
C1_Witness ==
    /\ stage = "evaluated"
    /\ validate_csv(csv).ok
    /\ Len(csv.rows) = 2
    /\ CellsOf(1) = RowOf(<<Num(0), Num(0), Num(2)>>, NumericColumnSet)
    /\ CellsOf(2) = RowOf(<<Num(2), Num(0), Num(1)>>, NumericColumnSet)
    /\ out.rows[1]["status"] = "PASS"
    /\ out.rows[2]["status"] = "FAIL"

\* C2: the summary of every table validate_csv accepts has
\* pass_count + fail_count = total and a pass_rate from 0 to 100 (the rate
\* is kept in hundredths of a percent).
C2_SummaryCounts ==
    (out.call = "evaluate" /\ out.ok /\ validate_csv(csv).ok) =>
        /\ out.summary.pass_count + out.summary.fail_count = out.summary.total
        /\ out.summary.pass_rate >= 0
        /\ out.summary.pass_rate <= 100 * 100

\* An accepted table with an empty value cell: one row passes, one fails.
C2_Witness ==
    /\ stage = "evaluated"
    /\ validate_csv(csv).ok
    /\ \E i \in 1..Len(csv.rows) : IsNaN(csv.rows[i]["value"])
    /\ out.summary.total = 2
    /\ out.summary.pass_count = 1
    /\ out.summary.pass_rate = 50 * 100

\* C3: a table that lacks required columns fails validate_csv with the
\* error that names exactly the required columns its header lacks, whatever
\* other columns it has; a table with all five never gets that error.
C3_MissingColumnsNamed ==
    (out.call = "validate_csv" /\ read_csv(csv).ok) =>
        /\ ~(REQUIRED_COLUMNS \subseteq csv.cols) =>
              /\ ~out.ok
              /\ out.exc = "Missing required columns"
              /\ out.missing = {c \in REQUIRED_COLUMNS : c \notin csv.cols}
        /\ REQUIRED_COLUMNS \subseteq csv.cols => out.exc # "Missing required columns"

\* Two required columns missing from a header with an unknown column.
C3_Witness ==
    /\ stage = "rejected"
    /\ "operator" \in csv.cols
    /\ Len(csv.rows) > 0
    /\ out.missing = {"value", "upper_limit"}

\* A cell of a numeric column that is not a number.
NotNumber(col) == \E i \in 1..Len(csv.rows) : csv.rows[i][col][1] # "num"

\* C4: with all required columns there, a cell of value, lower_limit or
\* upper_limit that is not a number (an empty cell too) makes validate_csv
\* fail, naming a column with such a cell; an accepted table has a number
\* in every cell of the three columns.
C4_EveryCellNumeric ==
    (out.call = "validate_csv" /\ REQUIRED_COLUMNS \subseteq csv.cols) =>
        /\ (\E col \in NumericColumnSet : NotNumber(col)) =>
              /\ ~out.ok
              /\ out.exc = "must be numeric"
              /\ out.column \in NumericColumnSet
              /\ NotNumber(out.column)
        /\ out.ok => \A col \in NumericColumnSet : ~NotNumber(col)

\* C5: evaluate on a table without rows fails with an error, and no
\* summary evaluate returns has a total of 0.
C5_EmptyTableFails ==
    /\ (out.call = "evaluate" /\ Len(csv.rows) = 0) =>
          (~out.ok /\ out.exc = "ZeroDivisionError" /\ out.summary = NoSummary)
    /\ (out.call = "evaluate" /\ out.ok) => out.summary.total > 0

\* evaluate has run on a table with its columns and no rows.
C5_Witness ==
    /\ stage = "failed"
    /\ out.call = "evaluate"
    /\ NumericColumnSet \subseteq csv.cols
    /\ Len(csv.rows) = 0
    /\ out.exc = "ZeroDivisionError"


-----------------------------------------------------------------------------
(* Properties of the front end.                                            *)

PleaseUploadCsv == <<"Please upload a .csv file.">>
FileTooLarge == <<"File too large (max 5MB).">>
ReportNotFound == <<"Report not found or expired.">>
ServedPdf == <<"test-report.pdf">>

\* C6 (SpecBuild): a run whose input the validator or the evaluator refuses
\* ends in the error page that carries their exception, and the directory
\* of a failed run never holds report.pdf.
C6_NoPdfOnFailure ==
    /\ \A r \in RunIds :
          /\ hist[r].outcome = "failed" => "report.pdf" \notin runs[r].files
          /\ (hist[r].outcome # "none" /\ runs[r].exists /\ "input.csv" \in runs[r].files) =>
                LET v == validate_csv(runs[r].input) IN
                /\ ~v.ok => (hist[r].outcome = "failed" /\ hist[r].exc = v.exc)
                /\ (v.ok /\ ~evaluate(v.df).ok) =>
                      (hist[r].outcome = "failed" /\ hist[r].exc = evaluate(v.df).exc)
    /\ \A w \in DOMAIN wk :
          (wk[w].pc = "done" /\ wk[w].resp.built
             /\ hist[wk[w].resp.run].outcome = "failed") =>
              /\ wk[w].resp.status = 400
              /\ wk[w].resp.msg = <<"Error: ">> \o friendly_error(hist[wk[w].resp.run].exc)

\* A run on a file with text in a limit column has failed.
C6_Witness ==
    \E w \in DOMAIN wk :
        /\ wk[w].pc = "done"
        /\ wk[w].resp.status = 400
        /\ wk[w].resp.run \in RunIds
        /\ runs[wk[w].resp.run].exists
        /\ "input.csv" \in runs[wk[w].resp.run].files
        /\ Len(runs[wk[w].resp.run].input.rows) > 0
        /\ hist[wk[w].resp.run].outcome = "failed"
        /\ hist[wk[w].resp.run].exc = "must be numeric"

\* The name ends in .csv, whatever the case of its letters.
CsvSuffix(name) ==
    /\ Len(name) >= 4
    /\ name[Len(name) - 3] = "."
    /\ name[Len(name) - 2] \in {"c", "C"}
    /\ name[Len(name) - 1] \in {"s", "S"}
    /\ name[Len(name)] \in {"v", "V"}

\* A step that made no directory and drew no run id.
NothingCreated ==
    /\ nextRun' = nextRun
    /\ \A r \in RunIds : runs'[r].exists => runs[r].exists

\* The call has answered 400 with msg, without a run and without a build.
TurnedAway(c, msg) ==
    /\ c.resp.status = 400
    /\ c.resp.msg = msg
    /\ ~c.resp.built
    /\ c.resp.run = 0

\* C7 (SpecUpload): /generate answers an upload whose name does not end in
\* .csv with 400 and "Please upload a .csv file.", and a .csv upload of more
\* than 5 MiB with 400 and a message, no step of such a call creating a run
\* directory or calling the build; a .csv upload of 5 MiB or less is not
\* turned away.
C7_UploadRejected ==
    [][\A w \in DOMAIN wk :
          (wk'[w] # wk[w] /\ wk'[w].pc # "idle") =>
              LET c == wk'[w] IN
              /\ ~CsvSuffix(c.u.filename) =>
                    /\ NothingCreated
                    /\ c.pc = "done" => TurnedAway(c, PleaseUploadCsv)
              /\ (CsvSuffix(c.u.filename) /\ c.u.size > 5 * 1024 * 1024) =>
                    /\ NothingCreated
                    /\ c.pc = "done" => TurnedAway(c, FileTooLarge)
              /\ (CsvSuffix(c.u.filename) /\ c.u.size <= 5 * 1024 * 1024) =>
                    (c.pc = "done" =>
                        (c.resp.msg \notin {PleaseUploadCsv, FileTooLarge} /\ c.resp.run # 0))
    ]_vars

\* An upload named in capitals and one byte over the limit was turned away.
C7_Witness ==
    \E w \in DOMAIN wk :
        /\ wk[w].pc = "done"
        /\ wk[w].u.filename = <<"B", ".", "C", "S", "V">>
        /\ wk[w].u.size = 5 * 1024 * 1024 + 1
        /\ TurnedAway(wk[w], FileTooLarge)
        /\ nextRun = 0

\* No sweep is at work on run r.
NotBeingSwept(r) == \A w \in DOMAIN wk : wk[w].cur # r

\* The PDF of run r was generated and its directory was last modified
\* within the retention window.
Retained(r) ==
    /\ hist[r].outcome = "ok"
    /\ runs[r].exists
    /\ now - runs[r].mtime <= 6 * 3600
    /\ NotBeingSwept(r)

\* The positions of a call in its sweep.
SweepPcs == {"sweep", "list", "files", "unlink"}

\* C8 (SpecWeb): the sweep of a /generate call takes for removal exactly
\* the run directories it finds last modified before its cutoff (6 hours
\* before its start), touches no other directory, and has removed those it
\* took when it ends; a download of a run whose PDF was generated and whose
\* directory was modified within the last 6 hours is served, and a
\* download of a swept run gets "Report not found or expired."
C8_SweepAndDownload ==
    [][/\ \A w \in DOMAIN wk :
            /\ (wk[w].pc = "idle" /\ wk'[w].pc = "sweep") =>
                  /\ wk'[w].cutoff = now - 6 * 3600
                  /\ wk'[w].todo = {r \in RunIds : runs[r].exists}
            /\ (wk[w].pc \in SweepPcs /\ wk'[w] # wk[w]) =>
                  \A r \in RunIds :
                      /\ r \in wk[w].todo \ wk'[w].todo =>
                            (r \in wk'[w].doomed
                               <=> (runs[r].exists /\ runs[r].mtime < wk[w].cutoff))
                      /\ runs'[r] # runs[r] => (r = wk[w].cur /\ r \in wk[w].doomed)
            /\ (wk[w].pc = "sweep" /\ wk'[w].pc \in {"read", "done"}) =>
                  /\ wk[w].todo = {}
                  /\ \A r \in wk[w].doomed : ~runs'[r].exists
       /\ (dl.pc = "idle" /\ dl' # dl) =>
            /\ Retained(dl'.run) => dl'.pc = "stat"
            /\ (hist[dl'.run].outcome # "none" /\ ~runs[dl'.run].exists) =>
                  (dl'.pc = "idle" /\ dl'.resp.msg = ReportNotFound)
       /\ (dl.pc = "stat" /\ dl' # dl) =>
            (Retained(dl.run) =>
                (dl'.pc = "send" /\ dl'.resp.status = 200 /\ dl'.resp.msg = ServedPdf))
       /\ (dl.pc = "send" /\ dl' # dl) =>
            (Retained(dl.run) => (dl'.resp.msg = ServedPdf /\ dl'.body = "complete"))
    ]_vars

\* A run whose PDF was generated has been swept, and its download refused.
C8_Witness ==
    /\ dl.pc = "idle"
    /\ dl.run \in RunIds
    /\ hist[dl.run].outcome = "ok"
    /\ ~runs[dl.run].exists
    /\ dl.resp.msg = ReportNotFound
    /\ now = 6 * 3600 + 1


-----------------------------------------------------------------------------
(* Properties of concurrent /generate calls, under SpecWorkers.            *)

\* C10 as claimed: whenever /generate returns the success page for a run,
\* report.pdf of that run is on disk at that moment.
C10_PdfThereOnSuccess ==
    \A w \in DOMAIN wk :
        (wk[w].pc = "done" /\ wk[w].resp.status = 200) => wk[w].pdfThere

\* The positions of a call between its mkdir and its response.
InFlight == {"write", "build", "load", "hist", "scatter", "hasHist", "hasScatter",
             "draw", "save", "respond"}

\* The files a call has written once it is at pc.
WrittenAt(pc) ==
    CASE pc = "write" -> {}
      [] pc \in {"build", "load", "hist"} -> {"input.csv"}
      [] pc = "scatter" -> {"input.csv", "histogram.png"}
      [] pc \in {"hasHist", "hasScatter", "draw", "save"} ->
            {"input.csv", "histogram.png", "scatter.png"}
      [] pc = "respond" -> {"input.csv", "histogram.png", "scatter.png", "report.pdf"}
      [] OTHER -> {}

\* C10 as amended: within 6 hours of a run directory's creation no sweep of
\* another call removes the directory or a file written to it, and a
\* success page returned within those 6 hours finds report.pdf on disk.
C10_IntactWithinRetention ==
    [][\A w \in DOMAIN wk :
          /\ (wk'[w].pc \in InFlight /\ now' - wk'[w].made <= 6 * 3600) =>
                /\ runs'[wk'[w].run].exists
                /\ WrittenAt(wk'[w].pc) \subseteq runs'[wk'[w].run].files
          /\ (wk[w].pc = "respond" /\ wk'[w].pc = "done"
                /\ now - wk[w].made <= 6 * 3600) =>
                   (wk'[w].resp.status = 200 /\ wk'[w].pdfThere)
    ]_vars

\* A call about to return the success page 6 hours after its run's mkdir,
\* report.pdf on disk, while the sweep of another call, which found that
\* directory and let it be, is under way.
C10_Witness ==
    \E w \in DOMAIN wk, v \in DOMAIN wk :
        /\ w # v
        /\ wk[w].pc = "respond"
        /\ now - wk[w].made = 6 * 3600
        /\ "report.pdf" \in runs[wk[w].run].files
        /\ wk[v].pc = "sweep"
        /\ wk[w].run \in (wk[v].listed \ wk[v].todo) \ wk[v].doomed


-----------------------------------------------------------------------------
(* Properties of GET /template, under SpecTemplate.                        *)

\* C9 as claimed: every /template response carries the fixed two lines,
\* whether or not template.csv was there before and however two calls
\* interleave.
C9_TemplateIdentical ==
    \A c \in Clients :
        tc[c].pc = "done" =>
            /\ tc[c].body = << "sample_id,test_name,value,lower_limit,upper_limit,unit",
                               "DUT_001,Output Power,-12.4,-15,-10,dBm" >>
            /\ tc[c].size = Len(tc[c].body)

=============================================================================
